---------------------------- MODULE Spec2Model ----------------------------
(***************************************************************************)
(* Model of the embalses ingestion pipeline (fetch_embalses.py and its     *)
(* Linux variant fetch_embalses_linux.py) and of the SQLite store the      *)
(* readers consume.  One run of main() is a sequence of steps: locate the  *)
(* archive URL, download, extract and parse (spreadsheet or .mdb),         *)
(* normalise (Windows script only) and the statements of guardar_db.       *)
(* Text is modelled by TLA+ strings, handled character by character.       *)
(***************************************************************************)
EXTENDS Integers, Sequences, FiniteSets, TLC

VARIABLES
    variante,     \* "win" (fetch_embalses.py) or "linux" (fetch_embalses_linux.py)
    pc,           \* position of the run inside main()
    nruns,        \* number of runs started so far
    reloj,        \* the wall clock read by datetime.now()
    resp,         \* answer of the landing page to this run's request
    peticiones,   \* landing-page requests issued by this run
    url,          \* value returned by detectar_url_zip
    zip,          \* the downloaded archive: entry names and payload
    elegido,      \* entry (and .mdb table) the extractor read
    tmp,          \* temporary .mdb files that exist on disk
    herramienta,  \* external-tool calls made by this run
    df,           \* the DataFrame in flight
    error,        \* the exception that aborted the run
    db,           \* the durable content of embalses.db
    tx,           \* the connection's open (uncommitted) transaction
    pre,          \* history: db as it was when the run started
    ult_ok,       \* history: archive and db of the last successful earlier run
    api           \* the answer of the read request being served (api.py, generators)

vars == <<variante, pc, nruns, reloj, resp, peticiones, url, zip, elegido, tmp,
          herramienta, df, error, db, tx, pre, ult_ok, api>>

(***************************************************************************)
(* Bounds of the model.                                                    *)
(***************************************************************************)
MaxRuns == 2
MaxEnlaces == 2
MaxEntradas == 2
MaxFilas == 2
MaxTablas == 2

(***************************************************************************)
(* Text helpers (Python str methods), character by character.              *)
(***************************************************************************)
Car(s, i) == SubSeq(s, i, i)

StartsWith(s, p) == Len(s) >= Len(p) /\ SubSeq(s, 1, Len(p)) = p

EndsWith(s, p) == Len(s) >= Len(p) /\ SubSeq(s, Len(s) - Len(p) + 1, Len(s)) = p

Contains(p, s) == \E i \in 1..(Len(s) - Len(p) + 1) : SubSeq(s, i, i + Len(p) - 1) = p

Mayusculas == "ABCDEFGHIJKLMNOPQRSTUVWXYZ"
Minusculas == "abcdefghijklmnopqrstuvwxyz"

\* Position of character c in alphabet a, 0 when absent.
Pos(c, a) == IF \E i \in 1..Len(a) : Car(a, i) = c
             THEN CHOOSE i \in 1..Len(a) : Car(a, i) = c
             ELSE 0

RECURSIVE Traducir(_, _, _)
\* s with every character of alphabet de replaced by the one at the same place of a.
Traducir(s, de, a) ==
    IF s = "" THEN ""
    ELSE LET c == Car(s, 1)
             k == Pos(c, de)
         IN (IF k = 0 THEN c ELSE Car(a, k)) \o Traducir(SubSeq(s, 2, Len(s)), de, a)

Lower(s) == Traducir(s, Mayusculas, Minusculas)

Upper(s) == Traducir(s, Minusculas, Mayusculas)

RECURSIVE Strip(_)
Strip(s) ==
    IF s = "" THEN ""
    ELSE IF Car(s, 1) = " " THEN Strip(SubSeq(s, 2, Len(s)))
    ELSE IF Car(s, Len(s)) = " " THEN Strip(SubSeq(s, 1, Len(s) - 1))
    ELSE s

\* Code points of the characters that occur in stored text, in ASCII order.
Alfabeto == " -./0123456789:ABCDEFGHIJKLMNOPQRSTUVWXYZ_abcdefghijklmnopqrstuvwxyz"

RECURSIVE TextoMenor(_, _)
\* a < b as SQLite compares TEXT (BINARY collation: byte by byte).
TextoMenor(a, b) ==
    IF b = "" THEN FALSE
    ELSE IF a = "" THEN TRUE
    ELSE LET x == Pos(Car(a, 1), Alfabeto)
             y == Pos(Car(b, 1), Alfabeto)
         IN IF x # y THEN x < y
            ELSE TextoMenor(SubSeq(a, 2, Len(a)), SubSeq(b, 2, Len(b)))

\* str(n) of a non-negative int.
Str(n) == ToString(n)

SeqsHasta(S, n) == UNION {[1..k -> S] : k \in 0..n}

Rango(s) == {s[i] : i \in DOMAIN s}

Indice(s, x) == IF \E i \in DOMAIN s : s[i] = x
                THEN CHOOSE i \in DOMAIN s : s[i] = x /\ \A j \in 1..(i - 1) : s[j] # x
                ELSE 0

(***************************************************************************)
(* 1. Source locator: detectar_url_zip.                                    *)
(***************************************************************************)
ZIP_DIRECT_URL_WIN ==
    "https://www.miteco.gob.es/content/dam/miteco/es/agua/temas/evaluacion-de-los-recursos-hidricos/BD-Embalses_1988-2022.zip"

ZIP_DIRECT_URL_LINUX ==
    "https://www.miteco.gob.es/content/dam/miteco/es/agua/temas/evaluacion-de-los-recursos-hidricos/boletin-hidrologico/Historico-de-embalses/BD-Embalses.zip"

ZIP_DIRECT_URL(v) == IF v = "win" THEN ZIP_DIRECT_URL_WIN ELSE ZIP_DIRECT_URL_LINUX

ORIGEN == "https://www.miteco.gob.es"

\* href values an anchor of the landing page may carry.
Hrefs == { "/content/dam/BD-Embalses_1988-2024.zip",
           "https://www.miteco.gob.es/dam/BD-Embalses_1988-2023.zip",
           "/content/dam/BD-Embalses_1988-2024.pdf",
           "/content/dam/boletin-semanal.zip",
           "https://www.miteco.gob.es/dam/BD-EMBALSES.ZIP",
           "BD-Embalses.zip" }

\* An anchor: <<>> when the <a> has no href, <<h>> when it has href h.
Anclas == {<<>>} \cup {<<h>> : h \in Hrefs}

Paginas == SeqsHasta(Anclas, MaxEnlaces)

\* What requests.get / raise_for_status / BeautifulSoup can give.
Respuestas ==
    {[tipo |-> t, pagina |-> <<>>] : t \in {"red", "timeout", "http_error", "html_error"}}
    \cup {[tipo |-> "ok", pagina |-> p] : p \in Paginas}

SinRespuesta == [tipo |-> "ninguna", pagina |-> <<>>]

\* The test without its extension half.
EsEnlaceZipSinExtension(href) == Contains("BD-Embalses", href)

\* The test of the loop body on one href.
EsEnlaceZip(href) == Contains("BD-Embalses", href) /\ EndsWith(href, ".zip")

Resolver(href) == IF StartsWith(href, "http") THEN href ELSE ORIGEN \o href

\* soup.find_all("a", href=True): the hrefs of the anchors that have one.
RECURSIVE FindAllHref(_)
FindAllHref(pagina) ==
    IF pagina = <<>> THEN <<>>
    ELSE Head(pagina) \o FindAllHref(Tail(pagina))

RECURSIVE PrimerEnlace(_, _)
\* The for loop: the first href passing the test, resolved; the fallback otherwise.
PrimerEnlace(hrefs, defecto) ==
    IF hrefs = <<>> THEN defecto
    ELSE IF EsEnlaceZip(Head(hrefs)) THEN Resolver(Head(hrefs))
    ELSE PrimerEnlace(Tail(hrefs), defecto)

\* detectar_url_zip on answer r: any exception inside the try ends at the fallback.
DetectarUrlZip(r, v) ==
    IF r.tipo = "ok" THEN PrimerEnlace(FindAllHref(r.pagina), ZIP_DIRECT_URL(v))
    ELSE ZIP_DIRECT_URL(v)

(***************************************************************************)
(* Cells, DataFrames and the published archive.                            *)
(* A cell is a number (in hundredths), a text, a date, +/-infinity or the  *)
(* missing value (None / NaN / NaT, stored by SQLite as NULL).             *)
(***************************************************************************)
Num(c) == [t |-> "num", n |-> c, s |-> ""]
Txt(x) == [t |-> "txt", n |-> 0, s |-> x]
Fch(a, m, d) == [t |-> "fecha", n |-> a * 10000 + m * 100 + d, s |-> ""]
Inf(signo) == [t |-> "inf", n |-> signo, s |-> ""]
NULO == [t |-> "null", n |-> 0, s |-> ""]

SinDf == [cols |-> <<>>, rows |-> <<>>]

\* Column c of row r of a frame with columns cols; NULO when the column is absent.
Celda(cols, r, c) == IF Indice(cols, c) = 0 THEN NULO ELSE r[Indice(cols, c)]

\* The rows of the bulletin: (reservoir, observation date).
Filas == { <<"Alarcon", Fch(2024, 1, 9)>>,
           <<"Alarcon", Fch(2024, 1, 16)>>,
           <<"Buendia", Fch(2024, 1, 9)>>,
           <<"Alarcon", Txt("not-a-date")>> }

Capacidad(e) == IF e = "Alarcon" THEN Num(20000) ELSE Num(0)
Volumen(e) == IF e = "Alarcon" THEN Num(9100) ELSE Num(500)
Cuenca(e) == IF e = "Alarcon" THEN Txt("Jucar") ELSE Txt("Tajo")
Electrico(e) == IF e = "Alarcon" THEN Num(100) ELSE Num(0)

\* Header rows the source has used: the one COLUMN_MAP expects and the one the
\* readers document (api.py, lines 6-12).
Layouts == {"mapeado", "real"}

Cabecera(l) ==
    IF l = "mapeado" THEN <<"Embalse", " Fecha", "Capacidad Total", "Volumen">>
    ELSE <<"EMBALSE_NOMBRE", "AMBITO_NOMBRE", "FECHA", "AGUA_TOTAL", "AGUA_ACTUAL",
           "ELECTRICO_FLAG">>

FilaDe(l, f) ==
    IF l = "mapeado" THEN <<Txt(f[1]), f[2], Capacidad(f[1]), Volumen(f[1])>>
    ELSE <<Txt(f[1]), Cuenca(f[1]), f[2], Capacidad(f[1]), Volumen(f[1]), Electrico(f[1])>>

Hoja(l, fs) == [cols |-> Cabecera(l), rows |-> [i \in DOMAIN fs |-> FilaDe(l, fs[i])]]

\* A sheet whose volume column holds text with a decimal comma.
HojaTexto ==
    [cols |-> Cabecera("mapeado"),
     rows |-> << <<Txt("Alarcon"), Fch(2024, 1, 9), Num(20000), Txt("91,00")>> >>]

Hojas == {Hoja(l, fs) : l \in Layouts, fs \in SeqsHasta(Filas, MaxFilas)} \cup {HojaTexto}

\* Entry names an archive may list.
Entradas == {"BD-Embalses.xlsx", "Historico.XLS", "BD-Embalses.mdb", "LEEME.txt"}

Listados == SeqsHasta(Entradas, MaxEntradas)

\* An archive: whether the bytes are a zip at all, the entry names it lists and
\* the table its payload entry holds.
SinZip == [valido |-> FALSE, nombres |-> <<>>, datos |-> SinDf]

Archivo(nombres, datos) == [valido |-> TRUE, nombres |-> nombres, datos |-> datos]

(***************************************************************************)
(* 3. Format extractor: parsear_excel (Windows) / parsear (Linux).         *)
(***************************************************************************)
EsExcel(n) == EndsWith(Lower(n), ".xlsx") \/ EndsWith(Lower(n), ".xls")

EsMdb(n) == EndsWith(Lower(n), ".mdb")

RECURSIVE ExcelFiles(_)
\* [n for n in nombres if n.lower().endswith((".xlsx", ".xls"))]
ExcelFiles(nombres) ==
    IF nombres = <<>> THEN <<>>
    ELSE (IF EsExcel(Head(nombres)) THEN <<Head(nombres)>> ELSE <<>>)
         \o ExcelFiles(Tail(nombres))

RECURSIVE MdbFiles(_)
\* [n for n in nombres if n.lower().endswith(".mdb")]
MdbFiles(nombres) ==
    IF nombres = <<>> THEN <<>>
    ELSE (IF EsMdb(Head(nombres)) THEN <<Head(nombres)>> ELSE <<>>)
         \o MdbFiles(Tail(nombres))

\* The two cases of the extractor in the opposite order.
FormatoMdbPrimero(nombres) ==
    IF MdbFiles(nombres) # <<>> THEN "mdb"
    ELSE IF ExcelFiles(nombres) # <<>> THEN "excel"
    ELSE "ninguno"

\* Which branch of the extractor an entry list takes.
Formato(nombres) ==
    IF ExcelFiles(nombres) # <<>> THEN "excel"
    ELSE IF MdbFiles(nombres) # <<>> THEN "mdb"
    ELSE "ninguno"

SinError == [etapa |-> "", tipo |-> "", msg |-> "", nombres |-> <<>>]

\* An exception of type tipo raised in stage etapa of main().
ErrEn(etapa, tipo, msg) == [etapa |-> etapa, tipo |-> tipo, msg |-> msg, nombres |-> <<>>]

Err(tipo, msg) == ErrEn("parsear", tipo, msg)

\* What the extractor read: the entry, and on the .mdb path whether the tables were
\* enumerated (listadas), the enumerated list, the table selected and the tool
\* found missing ("" when none was).
SinEleccion == [entrada |-> "", tabla |-> "", listadas |-> FALSE, tablas |-> <<>>, falta |-> ""]

(***************************************************************************)
(* Legacy-database parsers: parsear_mdb (pyodbc) and parsear_mdb_linux     *)
(* (mdbtools).  The environment decides which tools exist, which tables    *)
(* the file lists and whether the read succeeds.                           *)
(***************************************************************************)
NombresTabla == {"MSysRelaciones", "T_Embalses", "PRESAS_2024", "Cuencas"}

\* The keyword test on the name as it is spelled, without lower().
EsTablaEmbalsesSinLower(t) ==
    Contains("embalse", t) \/ Contains("presa", t) \/ Contains("pantano", t)

\* if "embalse" in nombre_lower or "presa" in nombre_lower or "pantano" in nombre_lower
EsTablaEmbalses(t) ==
    Contains("embalse", Lower(t)) \/ Contains("presa", Lower(t)) \/ Contains("pantano", Lower(t))

RECURSIVE PrimeraTabla(_)
\* The first table whose name carries a keyword; "" when there is none.
PrimeraTabla(tablas) ==
    IF tablas = <<>> THEN ""
    ELSE IF EsTablaEmbalses(Head(tablas)) THEN Head(tablas)
    ELSE PrimeraTabla(Tail(tablas))

\* What the machine offers to the .mdb path: a is the first tool (pyodbc import /
\* mdb-tables), b the second (Access driver / mdb-export), lee whether the read of
\* the selected table succeeds.
EntornosMdb ==
    [a : BOOLEAN, b : BOOLEAN, tablas : SeqsHasta(NombresTabla, MaxTablas), lee : BOOLEAN]

\* parsear_mdb: <<outcome, table, tool calls, temp file removed>>.
ParsearMdbWin(e) ==
    IF ~e.a THEN
        [err |-> Err("ImportError", "pyodbc no esta instalado. Ejecuta: pip install pyodbc"),
         tabla |-> "", llamadas |-> <<>>, borrado |-> FALSE,
         listadas |-> FALSE, tablas |-> <<>>, falta |-> "pyodbc"]
    ELSE IF ~e.b THEN
        [err |-> Err("RuntimeError",
                     "No se pudo conectar al MDB. Asegurate de tener instalado el 'Microsoft Access Database Engine'."),
         tabla |-> "", llamadas |-> <<"pyodbc.connect">>, borrado |-> FALSE,
         listadas |-> FALSE, tablas |-> <<>>, falta |-> "Microsoft Access Driver"]
    ELSE LET t == IF PrimeraTabla(e.tablas) # "" THEN PrimeraTabla(e.tablas)
                  ELSE IF e.tablas # <<>> THEN e.tablas[1] ELSE ""
         IN  IF e.tablas = <<>> THEN
                 [err |-> Err("IndexError", "list index out of range"),
                  tabla |-> "", llamadas |-> <<"pyodbc.connect">>, borrado |-> FALSE,
                  listadas |-> TRUE, tablas |-> e.tablas, falta |-> ""]
             ELSE IF ~e.lee THEN
                 [err |-> Err("DatabaseError", "read_sql"),
                  tabla |-> t, llamadas |-> <<"pyodbc.connect", "read_sql">>,
                  borrado |-> FALSE,
                  listadas |-> TRUE, tablas |-> e.tablas, falta |-> ""]
             ELSE
                 [err |-> SinError, tabla |-> t,
                  llamadas |-> <<"pyodbc.connect", "read_sql">>, borrado |-> TRUE,
                  listadas |-> TRUE, tablas |-> e.tablas, falta |-> ""]

\* parsear_mdb_linux.
ParsearMdbLinux(e) ==
    IF ~e.a THEN
        [err |-> Err("FileNotFoundError", "[Errno 2] No such file or directory: 'mdb-tables'"),
         tabla |-> "", llamadas |-> <<"mdb-tables">>, borrado |-> FALSE,
         listadas |-> FALSE, tablas |-> <<>>, falta |-> "mdb-tables"]
    ELSE LET t == IF PrimeraTabla(e.tablas) # "" THEN PrimeraTabla(e.tablas)
                  ELSE IF e.tablas # <<>> THEN e.tablas[1] ELSE ""
         IN  IF t = "" THEN
                 [err |-> Err("ValueError", "No se encontro ninguna tabla en el MDB"),
                  tabla |-> "", llamadas |-> <<"mdb-tables">>, borrado |-> FALSE,
                  listadas |-> TRUE, tablas |-> e.tablas, falta |-> ""]
             ELSE IF ~e.b THEN
                 [err |-> Err("FileNotFoundError",
                              "[Errno 2] No such file or directory: 'mdb-export'"),
                  tabla |-> t, llamadas |-> <<"mdb-tables", "mdb-export">>,
                  borrado |-> FALSE,
                  listadas |-> TRUE, tablas |-> e.tablas, falta |-> "mdb-export"]
             ELSE IF ~e.lee THEN
                 [err |-> Err("RuntimeError", "Error exportando MDB"),
                  tabla |-> t, llamadas |-> <<"mdb-tables", "mdb-export">>,
                  borrado |-> FALSE,
                  listadas |-> TRUE, tablas |-> e.tablas, falta |-> ""]
             ELSE
                 [err |-> SinError, tabla |-> t,
                  llamadas |-> <<"mdb-tables", "mdb-export">>, borrado |-> TRUE,
                  listadas |-> TRUE, tablas |-> e.tablas, falta |-> ""]

(***************************************************************************)
(* 4. Schema normaliser: normalizar (Windows script only).                 *)
(***************************************************************************)
\* COLUMN_MAP, in source order (the key spelled with a tilde is left out: no layout
\* of the model carries it).
COLUMN_MAP ==
    << <<"EMBALSE", "nombre">>, <<"NOMBRE_EMBALSE", "nombre">>, <<"NOMBRE", "nombre">>,
       <<"CUENCA", "cuenca">>, <<"AMBITO", "cuenca">>, <<"COMUNIDAD", "comunidad">>,
       <<"CAPACIDAD", "capacidad_hm3">>, <<"CAPACIDAD_TOTAL", "capacidad_hm3">>,
       <<"CAP_TOTAL", "capacidad_hm3">>, <<"VOLUMEN", "volumen_hm3">>,
       <<"AGUA_TOTAL", "volumen_hm3">>, <<"ELEC_CAPACIDAD", "energia_mwh">>,
       <<"FECHA", "fecha">>, <<"ANO", "anio">>, <<"SEMANA", "semana">>,
       <<"PORCENTAJE", "porcentaje">>, <<"PORC", "porcentaje">> >>

\* c.strip().upper().replace(" ", "_")
Canon(c) == Traducir(Upper(Strip(c)), " ", "_")

\* df.rename(columns=...): the mapped name of a canonical header, or the header.
Renombrar(c) ==
    IF \E i \in DOMAIN COLUMN_MAP : COLUMN_MAP[i][1] = c
    THEN COLUMN_MAP[CHOOSE i \in DOMAIN COLUMN_MAP : COLUMN_MAP[i][1] = c][2]
    ELSE c

\* round(num / den) to the nearest integer, ties to even (den > 0).
Redondear(num, den) ==
    LET q == num \div den
        r == num % den
    IN  IF 2 * r < den THEN q
        ELSE IF 2 * r > den THEN q + 1
        ELSE IF q % 2 = 0 THEN q ELSE q + 1

\* (volumen / capacidad * 100).round(2) on one row, as pandas divides floats:
\* a missing operand gives NaN, x/0 gives +/-inf, 0/0 gives NaN.  A text operand
\* makes the division raise TypeError: the result is then the cell "error".
Porcentaje(v, c) ==
    IF v.t = "txt" \/ c.t = "txt" THEN [t |-> "error", n |-> 0, s |-> "TypeError"]
    ELSE IF v.t # "num" \/ c.t # "num" THEN NULO
    ELSE IF c.n = 0 THEN (IF v.n > 0 THEN Inf(1) ELSE IF v.n < 0 THEN Inf(0 - 1) ELSE NULO)
    ELSE IF c.n > 0 THEN Num(Redondear(v.n * 10000, c.n))
    ELSE Num(Redondear((0 - v.n) * 10000, 0 - c.n))

Digitos == "0123456789"

Pad2(n) == IF n < 10 THEN "0" \o ToString(n) ELSE ToString(n)

\* strftime("%Y-%m-%d") of the date a * 10000 + m * 100 + d.
Strftime(n) == ToString(n \div 10000) \o "-" \o Pad2((n \div 100) % 100) \o "-" \o Pad2(n % 100)

EsDigito(c) == Pos(c, Digitos) # 0

\* Whether a text is a date written YYYY-MM-DD.
EsISO(x) ==
    /\ Len(x) = 10
    /\ Car(x, 5) = "-" /\ Car(x, 8) = "-"
    /\ \A i \in {1, 2, 3, 4, 6, 7, 9, 10} : EsDigito(Car(x, i))

\* The conversion with NaT formatted as the text "NaT" instead of a missing value.
FechaISOTextoNaT(c) ==
    IF c.t = "fecha" THEN Txt(Strftime(c.n))
    ELSE IF c.t = "txt" /\ EsISO(c.s) THEN Txt(c.s)
    ELSE Txt("NaT")

\* pd.to_datetime(col, errors="coerce").dt.strftime("%Y-%m-%d") on one cell: a date
\* is formatted, a text that is no date is coerced to NaT and formats to NaN.
FechaISO(c) ==
    IF c.t = "fecha" THEN Txt(Strftime(c.n))
    ELSE IF c.t = "txt" /\ EsISO(c.s) THEN Txt(c.s)
    ELSE NULO

\* df[col] = pd.to_datetime(df[col], errors="coerce").dt.strftime("%Y-%m-%d") on the
\* column at position k.
FechaCol(d, k) ==
    [d EXCEPT !.rows = [i \in DOMAIN d.rows |->
                           [j \in DOMAIN d.cols |->
                               IF j = k THEN FechaISO(d.rows[i][j]) ELSE d.rows[i][j]]]]

\* normalizar(df): the normalised frame, or SinDf with ok = FALSE when it raises.
normalizar(d) ==
    LET cols1 == [j \in DOMAIN d.cols |-> Renombrar(Canon(d.cols[j]))]
        d1 == [d EXCEPT !.cols = cols1]
        deriva == /\ Indice(cols1, "porcentaje") = 0
                  /\ Indice(cols1, "volumen_hm3") # 0
                  /\ Indice(cols1, "capacidad_hm3") # 0
        pct(r) == Porcentaje(Celda(cols1, r, "volumen_hm3"), Celda(cols1, r, "capacidad_hm3"))
        falla == deriva /\ \E i \in DOMAIN d.rows : pct(d.rows[i]).t = "error"
        d2 == IF deriva
              THEN [cols |-> Append(cols1, "porcentaje"),
                    rows |-> [i \in DOMAIN d1.rows |-> Append(d1.rows[i], pct(d1.rows[i]))]]
              ELSE d1
        k == Indice(d2.cols, "fecha")
        d3 == IF k # 0 THEN FechaCol(d2, k) ELSE d2
    IN  IF falla THEN [ok |-> FALSE, df |-> SinDf] ELSE [ok |-> TRUE, df |-> d3]

\* The first column whose lower-cased name contains "fecha" or "date" (0: none).
ColFechaLinux(cols) ==
    IF \E j \in DOMAIN cols : Contains("fecha", Lower(cols[j])) \/ Contains("date", Lower(cols[j]))
    THEN CHOOSE j \in DOMAIN cols :
            /\ Contains("fecha", Lower(cols[j])) \/ Contains("date", Lower(cols[j]))
            /\ \A i \in 1..(j - 1) :
                  ~(Contains("fecha", Lower(cols[i])) \/ Contains("date", Lower(cols[i])))
    ELSE 0

\* The loop that opens guardar_db of the Linux script: that column is parsed,
\* formatted and renamed to "fecha".
FechaLinux(d) ==
    LET k == ColFechaLinux(d.cols)
    IN  IF k = 0 THEN d
        ELSE [FechaCol(d, k) EXCEPT !.cols[k] = "fecha"]

(***************************************************************************)
(* 5. Snapshot store: the SQLite file and the statements of guardar_db.    *)
(***************************************************************************)
SinTabla == [existe |-> FALSE, cols |-> <<>>, rows |-> <<>>]

DbVacia == [archivo |-> FALSE, embalses |-> SinTabla, vista |-> FALSE,
            meta_existe |-> FALSE, meta |-> {}]

SinTx == [abierta |-> FALSE, meta |-> {}]

\* The value to_sql binds for a cell: a date object is written as its ISO text with
\* the time of day, the rest as it is (NaN as NULL).
ToSqlCelda(c) == IF c.t = "fecha" THEN Txt(Strftime(c.n) \o " 00:00:00") ELSE c

ToSqlFilas(d) == [i \in DOMAIN d.rows |-> [j \in DOMAIN d.cols |-> ToSqlCelda(d.rows[i][j])]]

\* INSERT OR REPLACE INTO meta VALUES (k, v), clave being the PRIMARY KEY.
Upsert(m, k, v) == {p \in m : p[1] # k} \cup {<<k, v>>}

\* datetime.now().isoformat() when the clock shows second number r.
Isoformat(r) == "2024-01-16T08:00:" \o Pad2(r)

\* SELECT nombre, MAX(fecha) ... GROUP BY nombre, then the join of the view: the rows
\* whose nombre is not NULL and whose fecha is the greatest non-NULL fecha of the
\* rows with that nombre.
MaxFecha(cols, rows, coln, n) ==
    LET fs == {Celda(cols, rows[i], "fecha") : i \in {i \in DOMAIN rows : Celda(cols, rows[i], coln) = n}}
        ok == {f \in fs : f.t # "null"}
    IN  IF ok = {} THEN NULO
        ELSE CHOOSE f \in ok : \A g \in ok : ~TextoMenor(f.s, g.s)

RECURSIVE Seleccionar(_, _, _)
\* The rows of rows that satisfy the test Pasa[i] given by index set ids, in order.
Seleccionar(rows, ids, i) ==
    IF i > Len(rows) THEN <<>>
    ELSE (IF i \in ids THEN <<rows[i]>> ELSE <<>>) \o Seleccionar(rows, ids, i + 1)

\* The rows SELECT * FROM embalses_ultimo returns on store d (the view must exist
\* and its columns nombre and fecha must exist in the table).
VistaConsultable(d) ==
    /\ d.vista /\ d.embalses.existe
    /\ Indice(d.embalses.cols, "nombre") # 0 /\ Indice(d.embalses.cols, "fecha") # 0

EmbalsesUltimo(d) ==
    LET cols == d.embalses.cols
        rows == d.embalses.rows
        ids == {i \in DOMAIN rows :
                   LET n == Celda(cols, rows[i], "nombre")
                       f == Celda(cols, rows[i], "fecha")
                   IN  n.t # "null" /\ f.t # "null" /\ f = MaxFecha(cols, rows, "nombre", n)}
    IN  Seleccionar(rows, ids, 1)

(***************************************************************************)
(* Readers (api.py, generar_json.py, exportar_json.py): the answer of the  *)
(* request being served.  estado is the HTTP status (0: no request; for    *)
(* the generators 200 stands for "file written", 500 for a crash); filas   *)
(* the projected rows, lista the list of basins, meta the key-value pairs, *)
(* fecha the value of MAX(fecha), n and m the counts of the answer.        *)
(***************************************************************************)
SinPeticion == [ruta |-> "", estado |-> 0, filas |-> <<>>, lista |-> <<>>, meta |-> {},
                fecha |-> NULO, n |-> 0, m |-> 0]

(***************************************************************************)
(* What the environment offers to a whole run: a few landing-page answers, *)
(* archives and machines.  The stages are explored over their full input   *)
(* sets by the specifications SpecLoc and SpecExt below.                   *)
(***************************************************************************)
RespuestasRun ==
    { [tipo |-> "timeout", pagina |-> <<>>],
      [tipo |-> "ok", pagina |-> <<>>],
      [tipo |-> "ok", pagina |-> << <<"/content/dam/BD-Embalses_1988-2024.zip">> >>] }

ArchivosRun ==
    {Archivo(<<"BD-Embalses.xlsx">>, h) : h \in Hojas}
    \cup { Archivo(<<"BD-Embalses.mdb">>, Hoja("real", <<>>)),
           Archivo(<<"LEEME.txt">>, SinDf),
           SinZip }

EntornosRun ==
    { [a |-> TRUE, b |-> TRUE, tablas |-> <<"T_Embalses">>, lee |-> TRUE],
      [a |-> FALSE, b |-> TRUE, tablas |-> <<"T_Embalses">>, lee |-> TRUE] }

(***************************************************************************)
(* 6. main(): one action per stage or statement.                           *)
(***************************************************************************)
SinUltOk == [hay |-> FALSE, zip |-> SinZip, db |-> DbVacia]

InitComun ==
    /\ variante \in {"win", "linux"}
    /\ nruns = 0 /\ reloj = 0
    /\ resp = SinRespuesta /\ peticiones = 0 /\ url = ""
    /\ zip = SinZip /\ elegido = SinEleccion /\ tmp = {} /\ herramienta = <<>>
    /\ df = SinDf /\ error = SinError
    /\ db = DbVacia /\ tx = SinTx /\ pre = DbVacia /\ ult_ok = SinUltOk
    /\ api = SinPeticion

Init == InitComun /\ pc = "idle"

\* A run starts (the scheduler starts main(); at most one run at a time).
Iniciar ==
    /\ pc \in {"idle", "done", "failed"}
    /\ nruns < MaxRuns
    /\ pc' = "detectar"
    /\ nruns' = nruns + 1
    /\ resp' = SinRespuesta /\ peticiones' = 0 /\ url' = ""
    /\ zip' = SinZip /\ elegido' = SinEleccion /\ herramienta' = <<>>
    /\ df' = SinDf /\ error' = SinError /\ tx' = SinTx
    /\ pre' = db
    /\ ult_ok' = IF pc = "done" THEN [hay |-> TRUE, zip |-> zip, db |-> db] ELSE ult_ok
    /\ UNCHANGED <<api, variante, reloj, tmp, db>>

\* url = detectar_url_zip(): one request, whose answer is one of R.
Detectar(R) ==
    /\ pc = "detectar"
    /\ \E r \in R :
          /\ resp' = r
          /\ url' = DetectarUrlZip(r, variante)
    /\ peticiones' = peticiones + 1
    /\ pc' = "descargar"
    /\ UNCHANGED <<api, variante, nruns, reloj, zip, elegido, tmp, herramienta, df, error,
                   db, tx, pre, ult_ok>>

\* zip_bytes = descargar_zip(url): the server answers with one of the archives A.
Descargar(A) ==
    /\ pc = "descargar"
    /\ \E a \in A : zip' = a
    /\ pc' = "parsear"
    /\ resp' = SinRespuesta /\ url' = ""
    /\ UNCHANGED <<api, variante, nruns, reloj, peticiones, elegido, tmp, herramienta, df,
                   error, db, tx, pre, ult_ok>>

\* descargar_zip raises: network error, timeout or a non-2xx status.
DescargarFalla ==
    /\ pc = "descargar"
    /\ \E t \in {"ConnectionError", "Timeout", "HTTPError"} :
          error' = ErrEn("descargar", t, "")
    /\ pc' = "failed"
    /\ resp' = SinRespuesta /\ url' = ""
    /\ UNCHANGED <<api, variante, nruns, reloj, peticiones, zip, elegido, tmp, herramienta,
                   df, db, tx, pre, ult_ok>>

\* The stage that follows a successful parse: normalizar in fetch_embalses.py,
\* guardar_db at once in fetch_embalses_linux.py.
TrasParsear(v) == IF v = "win" THEN "normalizar" ELSE "g_fecha"

\* zipfile.ZipFile raises BadZipFile: the download is no archive.
ZipCorrupto ==
    /\ pc = "parsear"
    /\ ~zip.valido
    /\ error' = Err("BadZipFile", "File is not a zip file")
    /\ pc' = "failed"
    /\ UNCHANGED <<api, variante, nruns, reloj, resp, peticiones, url, zip, elegido, tmp,
                   herramienta, df, db, tx, pre, ult_ok>>

\* Case 1 of the extractor: the first spreadsheet entry is read with read_excel,
\* which returns the sheet or raises.
ParsearExcel ==
    /\ pc = "parsear"
    /\ zip.valido
    /\ Formato(zip.nombres) = "excel"
    /\ elegido' = [SinEleccion EXCEPT !.entrada = ExcelFiles(zip.nombres)[1]]
    /\ \E ok \in BOOLEAN :
          IF ok
          THEN df' = zip.datos /\ pc' = TrasParsear(variante) /\ error' = error
          ELSE df' = df /\ pc' = "failed" /\ error' = Err("ParseError", "read_excel")
    /\ UNCHANGED <<api, variante, nruns, reloj, resp, peticiones, url, zip, tmp, herramienta,
                   db, tx, pre, ult_ok>>

\* Case 2: no spreadsheet entry; the first .mdb entry is written to a temporary
\* file created with delete=False.
ExtraerMdb ==
    /\ pc = "parsear"
    /\ zip.valido
    /\ Formato(zip.nombres) = "mdb"
    /\ elegido' = [SinEleccion EXCEPT !.entrada = MdbFiles(zip.nombres)[1]]
    /\ tmp' = tmp \cup {nruns}
    /\ pc' = "mdb"
    /\ UNCHANGED <<api, variante, nruns, reloj, resp, peticiones, url, zip, herramienta, df,
                   error, db, tx, pre, ult_ok>>

\* Neither kind, logged and carried on with an empty frame instead of raised.
SinFormatoSigue ==
    /\ pc = "parsear"
    /\ zip.valido
    /\ Formato(zip.nombres) = "ninguno"
    /\ df' = SinDf
    /\ pc' = TrasParsear(variante)
    /\ UNCHANGED <<api, variante, nruns, reloj, resp, peticiones, url, zip, elegido, tmp,
                   herramienta, error, db, tx, pre, ult_ok>>

\* Neither kind: ValueError naming the entries of the archive.
SinFormato ==
    /\ pc = "parsear"
    /\ zip.valido
    /\ Formato(zip.nombres) = "ninguno"
    /\ error' = [Err("ValueError", "No se encontro Excel ni MDB en el ZIP. Ficheros: ")
                    EXCEPT !.nombres = zip.nombres]
    /\ pc' = "failed"
    /\ UNCHANGED <<api, variante, nruns, reloj, resp, peticiones, url, zip, elegido, tmp,
                   herramienta, df, db, tx, pre, ult_ok>>

\* parsear_mdb(tmp_path) / parsear_mdb_linux(tmp_path) on a machine of E.
ParsearMdb(E) ==
    /\ pc = "mdb"
    /\ \E e \in E :
          LET r == IF variante = "win" THEN ParsearMdbWin(e) ELSE ParsearMdbLinux(e)
          IN  /\ herramienta' = r.llamadas
              /\ elegido' = [elegido EXCEPT !.tabla = r.tabla, !.listadas = r.listadas,
                                              !.tablas = r.tablas, !.falta = r.falta]
              /\ tmp' = IF r.borrado THEN tmp \ {nruns} ELSE tmp
              /\ error' = r.err
              /\ IF r.err = SinError
                 THEN df' = zip.datos /\ pc' = TrasParsear(variante)
                 ELSE df' = df /\ pc' = "failed"
    /\ UNCHANGED <<api, variante, nruns, reloj, resp, peticiones, url, zip, db, tx, pre, ult_ok>>

\* df = normalizar(df)
Normalizar ==
    /\ pc = "normalizar"
    /\ LET r == normalizar(df)
       IN  IF r.ok
           THEN df' = r.df /\ pc' = "g_connect" /\ error' = error
           ELSE df' = df /\ pc' = "failed"
                /\ error' = ErrEn("normalizar", "TypeError", "unsupported operand type(s) for /")
    /\ elegido' = SinEleccion
    /\ UNCHANGED <<api, variante, nruns, reloj, resp, peticiones, url, zip, tmp, herramienta,
                   db, tx, pre, ult_ok>>

\* guardar_db of the Linux script starts by normalising the date column of df.
GuardarFecha ==
    /\ pc = "g_fecha"
    /\ df' = FechaLinux(df)
    /\ elegido' = SinEleccion
    /\ pc' = "g_connect"
    /\ UNCHANGED <<api, variante, nruns, reloj, resp, peticiones, url, zip, tmp, herramienta,
                   error, db, tx, pre, ult_ok>>

\* con = sqlite3.connect(db_path): the file is created when it does not exist.
\* to_sql then asks whether the table exists.
Conectar ==
    /\ pc = "g_connect"
    /\ db' = [db EXCEPT !.archivo = TRUE]
    /\ pc' = IF db.embalses.existe THEN "g_drop" ELSE "g_create"
    /\ UNCHANGED <<api, variante, nruns, reloj, resp, peticiones, url, zip, elegido, tmp,
                   herramienta, df, error, tx, pre, ult_ok>>

\* to_sql with if_exists="append": the table found is kept and the rows are added.
ToSqlAppend ==
    /\ pc = "g_drop"
    /\ pc' = "g_insert"
    /\ UNCHANGED <<api, variante, nruns, reloj, resp, peticiones, url, zip, elegido, tmp,
                   herramienta, df, error, db, tx, pre, ult_ok>>

\* df.to_sql("embalses", con, if_exists="replace", index=False) is three statements
\* of pandas' SQLite backend.  First DROP TABLE embalses, outside any transaction:
\* it is durable as soon as it has run.
ToSqlDrop ==
    /\ pc = "g_drop"
    /\ db' = [db EXCEPT !.embalses = SinTabla]
    /\ pc' = "g_create"
    /\ UNCHANGED <<api, variante, nruns, reloj, resp, peticiones, url, zip, elegido, tmp,
                   herramienta, df, error, tx, pre, ult_ok>>

\* Then CREATE TABLE embalses (the columns of df), committed.
ToSqlCreate ==
    /\ pc = "g_create"
    /\ db' = [db EXCEPT !.embalses = [existe |-> TRUE, cols |-> df.cols, rows |-> <<>>]]
    /\ pc' = "g_insert"
    /\ UNCHANGED <<api, variante, nruns, reloj, resp, peticiones, url, zip, elegido, tmp,
                   herramienta, df, error, tx, pre, ult_ok>>

\* An INSERT that stops one row short.
InsertarSinUltima(filas, d) ==
    filas \o SubSeq(ToSqlFilas(d), 1, Len(d.rows) - 1)

\* The rows a table holds after the INSERT of to_sql into a table holding filas.
Insertar(filas, d) == filas \o ToSqlFilas(d)

\* Then the INSERT of every row in one transaction, committed by to_sql.
ToSqlInsert ==
    /\ pc = "g_insert"
    /\ db' = [db EXCEPT !.embalses.rows = Insertar(db.embalses.rows, df)]
    /\ pc' = IF variante = "win" THEN "g_dropview" ELSE "g_meta"
    /\ UNCHANGED <<api, variante, nruns, reloj, resp, peticiones, url, zip, elegido, tmp,
                   herramienta, df, error, tx, pre, ult_ok>>

\* con.execute("DROP VIEW IF EXISTS embalses_ultimo")
DropView ==
    /\ pc = "g_dropview"
    /\ db' = [db EXCEPT !.vista = FALSE]
    /\ pc' = "g_createview"
    /\ UNCHANGED <<api, variante, nruns, reloj, resp, peticiones, url, zip, elegido, tmp,
                   herramienta, df, error, tx, pre, ult_ok>>

\* Whether guardar_db creates the view for a frame with these columns.
CreaVista(cols) == Indice(cols, "fecha") # 0 /\ Indice(cols, "nombre") # 0

\* if "fecha" in df.columns and "nombre" in df.columns: CREATE VIEW embalses_ultimo
CreateView ==
    /\ pc = "g_createview"
    /\ db' = [db EXCEPT !.vista = IF CreaVista(df.cols) THEN TRUE ELSE @]
    /\ pc' = "g_meta"
    /\ UNCHANGED <<api, variante, nruns, reloj, resp, peticiones, url, zip, elegido, tmp,
                   herramienta, df, error, tx, pre, ult_ok>>

\* CREATE TABLE IF NOT EXISTS meta (clave TEXT PRIMARY KEY, valor TEXT)
CreateMeta ==
    /\ pc = "g_meta"
    /\ db' = [db EXCEPT !.meta_existe = TRUE]
    /\ pc' = "g_ua"
    /\ UNCHANGED <<api, variante, nruns, reloj, resp, peticiones, url, zip, elegido, tmp,
                   herramienta, df, error, tx, pre, ult_ok>>

\* INSERT OR REPLACE of ultima_actualizacion: the statement opens the connection's
\* implicit transaction; nothing is durable before con.commit().
InsertUA ==
    /\ pc = "g_ua"
    /\ tx' = [abierta |-> TRUE,
              meta |-> Upsert(db.meta, "ultima_actualizacion", Isoformat(reloj))]
    /\ reloj' = reloj + 1
    /\ pc' = "g_total"
    /\ UNCHANGED <<api, variante, nruns, resp, peticiones, url, zip, elegido, tmp,
                   herramienta, df, error, db, pre, ult_ok>>

\* The value written under total_registros: str(len(df)).
TotalRegistros(d) == Str(Len(d.rows))

\* INSERT OR REPLACE of total_registros, in the same transaction.
InsertTotal ==
    /\ pc = "g_total"
    /\ tx' = [tx EXCEPT !.meta = Upsert(tx.meta, "total_registros", TotalRegistros(df))]
    /\ pc' = "g_commit"
    /\ UNCHANGED <<api, variante, nruns, reloj, resp, peticiones, url, zip, elegido, tmp,
                   herramienta, df, error, db, pre, ult_ok>>

\* con.commit(); con.close(): the two meta rows become durable and main() returns.
Commit ==
    /\ pc = "g_commit"
    /\ db' = [db EXCEPT !.meta = tx.meta]
    /\ tx' = SinTx
    /\ pc' = "done"
    /\ UNCHANGED <<api, variante, nruns, reloj, resp, peticiones, url, zip, elegido, tmp,
                   herramienta, df, error, pre, ult_ok>>

PasosGuardar == {"g_connect", "g_drop", "g_create", "g_insert", "g_dropview",
                 "g_createview", "g_meta", "g_ua", "g_total", "g_commit"}

\* guardar_db has no try, no rollback and no transaction around its statements: the
\* statement about to run raises (disk, lock) or the process is killed.  The open
\* transaction is rolled back; what earlier statements made durable stays; main()
\* re-raises.
GuardarFalla ==
    /\ pc \in PasosGuardar
    /\ error' = ErrEn("guardar", "sqlite3.OperationalError", pc)
    /\ tx' = SinTx
    /\ pc' = "failed"
    /\ UNCHANGED <<api, variante, nruns, reloj, resp, peticiones, url, zip, elegido, tmp,
                   herramienta, df, db, pre, ult_ok>>

Next ==
    \/ Iniciar
    \/ Detectar(RespuestasRun)
    \/ Descargar(ArchivosRun)
    \/ DescargarFalla
    \/ ZipCorrupto
    \/ ParsearExcel
    \/ ExtraerMdb
    \/ SinFormato
    \/ ParsearMdb(EntornosRun)
    \/ Normalizar
    \/ GuardarFecha
    \/ Conectar
    \/ ToSqlDrop
    \/ ToSqlCreate
    \/ ToSqlInsert
    \/ DropView
    \/ CreateView
    \/ CreateMeta
    \/ InsertUA
    \/ InsertTotal
    \/ Commit
    \/ GuardarFalla

Spec == Init /\ [][Next]_vars

(***************************************************************************)
(* The locator alone, over every answer of the landing page.               *)
(***************************************************************************)
InitLoc == InitComun /\ pc = "detectar"

NextLoc == Detectar(Respuestas)

SpecLoc == InitLoc /\ [][NextLoc]_vars

(***************************************************************************)
(* The extractor and the parsers alone, over every entry list and every    *)
(* machine: the run has downloaded an archive and calls parsear_excel /    *)
(* parsear.                                                                *)
(***************************************************************************)
ArchivosExt == {Archivo(n, Hoja("real", <<>>)) : n \in Listados} \cup {SinZip}

InitExt ==
    /\ variante \in {"win", "linux"}
    /\ pc = "parsear"
    /\ nruns = 1 /\ reloj = 0
    /\ resp = SinRespuesta /\ peticiones = 1 /\ url = ""
    /\ zip \in ArchivosExt
    /\ elegido = SinEleccion /\ tmp = {} /\ herramienta = <<>>
    /\ df = SinDf /\ error = SinError
    /\ db = DbVacia /\ tx = SinTx /\ pre = DbVacia /\ ult_ok = SinUltOk
    /\ api = SinPeticion

NextExt ==
    \/ ZipCorrupto
    \/ ParsearExcel
    \/ ExtraerMdb
    \/ SinFormato
    \/ ParsearMdb(EntornosMdb)

SpecExt == InitExt /\ [][NextExt]_vars

(***************************************************************************)
(* Vocabulary of the properties, stated apart from the definitions above.  *)
(***************************************************************************)
EsHojaCalculo(n) == n \in {"BD-Embalses.xlsx", "Historico.XLS"}

EsBaseDatos(n) == n = "BD-Embalses.mdb"

TieneSoporte(nombres) ==
    \E i \in DOMAIN nombres : EsHojaCalculo(nombres[i]) \/ EsBaseDatos(nombres[i])

\* The value stored under key k of meta table m ("" when the key is absent).
MetaValor(m, k) == IF \E p \in m : p[1] = k THEN (CHOOSE p \in m : p[1] = k)[2] ELSE ""

MetaClaves(m) == {p[1] : p \in m}

Decimal(n) == <<"0", "1", "2", "3", "4", "5", "6", "7", "8", "9">>[n + 1]

\* The run has ended (main() returned or raised) or none has started.
EntreRuns == pc \in {"idle", "done", "failed"}

\* The store as the most recent successful run left it.
UltimoExito == IF pc = "done" THEN db ELSE ult_ok.db

HayExito == pc = "done" \/ ult_ok.hay

\* The ISO-8601 text of a date cell of the source, NULO for anything else.
FechaEsperada(c) ==
    IF c = Fch(2024, 1, 9) THEN Txt("2024-01-09")
    ELSE IF c = Fch(2024, 1, 16) THEN Txt("2024-01-16")
    ELSE NULO

\* The date cells of the rows of the downloaded sheet, in order.
FechasFuente ==
    LET k == IF zip.datos.cols = Cabecera("mapeado") THEN 2 ELSE 3
    IN  [i \in DOMAIN zip.datos.rows |-> zip.datos.rows[i][k]]

(***************************************************************************)
(* C1.  Replace atomicity: when guardar_db fails after it has started, the *)
(* embalses table read afterwards is exactly the one persisted before the  *)
(* run (not absent, not empty, not the new rows).                          *)
(***************************************************************************)
C1_ReplaceAtomicity ==
    (pc = "failed" /\ error.etapa = "guardar" /\ pre.embalses.existe)
        => db.embalses = pre.embalses

(***************************************************************************)
(* C2.  Latest view: after every successful commit the view                *)
(* embalses_ultimo exists and holds, for every reservoir of the committed  *)
(* table, exactly one row, whose fecha is the greatest fecha of that       *)
(* reservoir in the table.                                                 *)
(***************************************************************************)
Entidades == {zip.datos.rows[i][1] : i \in DOMAIN zip.datos.rows}

C2_LatestView ==
    pc = "done" =>
        /\ VistaConsultable(db)
        /\ \A e \in Entidades :
              LET cols == db.embalses.cols
                  v == EmbalsesUltimo(db)
                  de == {i \in DOMAIN v : Celda(cols, v[i], "nombre") = e}
                  todas == {i \in DOMAIN db.embalses.rows :
                               Celda(cols, db.embalses.rows[i], "nombre") = e}
              IN  /\ Cardinality(de) = 1
                  /\ \A i \in de : \A j \in todas :
                        LET f == Celda(cols, v[i], "fecha")
                            g == Celda(cols, db.embalses.rows[j], "fecha")
                        IN  f.t = "txt" /\ (g.t = "txt" => ~TextoMenor(f.s, g.s))

(***************************************************************************)
(* C3.  The store is written only after locator, fetcher, extractor,       *)
(* parser and normaliser have completed: while they run, and after any of  *)
(* them failed, table, view and metadata are what they were before the     *)
(* run; an archive with neither kind of entry makes the run fail with a    *)
(* ValueError that names the entries.                                      *)
(***************************************************************************)
C3_FailFastNoWrite ==
    /\ pc \in {"detectar", "descargar", "parsear", "mdb", "normalizar", "g_fecha"}
          => db = pre /\ tx = SinTx
    /\ (pc = "failed" /\ error.etapa # "guardar") => db = pre /\ error.tipo # ""
    /\ (pc = "failed" /\ zip.valido /\ ~TieneSoporte(zip.nombres))
          => error.tipo = "ValueError" /\ error.nombres = zip.nombres /\ db = pre
    /\ pc \in PasosGuardar \cup {"done"}
          => /\ peticiones = 1 /\ zip.valido /\ TieneSoporte(zip.nombres)
             /\ variante = "win" => df.cols # zip.datos.cols

C3_Witness ==
    /\ pc = "failed" /\ error.tipo = "ValueError" /\ error.nombres = <<"LEEME.txt">>
    /\ pre.embalses.existe /\ pre.embalses.rows # <<>> /\ pre.meta # {}
    /\ db = pre

(***************************************************************************)
(* C4.  Replace, not merge: after a successful commit the table holds      *)
(* exactly the columns and rows of the committed frame, whatever the       *)
(* earlier snapshot held.                                                  *)
(***************************************************************************)
C4_ReplaceNotMerge ==
    pc = "done" =>
        /\ db.embalses.existe
        /\ db.embalses.cols = df.cols
        /\ Len(db.embalses.rows) = Len(df.rows)
        /\ db.embalses.rows = df.rows

C4_Witness ==
    /\ pc = "done"
    /\ pre.embalses.existe
    /\ Len(pre.embalses.rows) > Len(db.embalses.rows)
    /\ pre.embalses.cols # db.embalses.cols
    /\ db.embalses.rows # <<>>

(***************************************************************************)
(* C5.  Idempotence: a successful run on the archive of the previous       *)
(* successful run leaves the same table and the same total_registros;      *)
(* ultima_actualizacion does not go backwards.                             *)
(***************************************************************************)
C5_Idempotence ==
    (pc = "done" /\ ult_ok.hay /\ ult_ok.zip = zip) =>
        /\ db.embalses = ult_ok.db.embalses
        /\ MetaValor(db.meta, "total_registros") = MetaValor(ult_ok.db.meta, "total_registros")
        /\ ~TextoMenor(MetaValor(db.meta, "ultima_actualizacion"),
                       MetaValor(ult_ok.db.meta, "ultima_actualizacion"))

C5_Witness ==
    /\ pc = "done" /\ ult_ok.hay /\ ult_ok.zip = zip
    /\ Len(db.embalses.rows) = 2
    /\ TextoMenor(MetaValor(ult_ok.db.meta, "ultima_actualizacion"),
                  MetaValor(db.meta, "ultima_actualizacion"))

(***************************************************************************)
(* C6.  Metadata: between runs the meta table holds at most one value per  *)
(* key and, once a run has succeeded, exactly the keys                     *)
(* ultima_actualizacion and total_registros, total_registros being the     *)
(* decimal text of the row count of the table the last successful run      *)
(* committed, which is also the row count of the table now persisted.      *)
(***************************************************************************)
C6_MetaSingleton ==
    EntreRuns =>
        /\ \A p, q \in db.meta : p[1] = q[1] => p = q
        /\ HayExito =>
              /\ MetaClaves(db.meta) = {"ultima_actualizacion", "total_registros"}
              /\ MetaValor(db.meta, "total_registros")
                    = Decimal(Len(UltimoExito.embalses.rows))
              /\ db.embalses.existe
              /\ MetaValor(db.meta, "total_registros") = Decimal(Len(db.embalses.rows))

(***************************************************************************)
(* C7.  Unparseable dates.  As claimed: after a run every row of the       *)
(* persisted table has a valid ISO-8601 fecha (a row with an unparseable   *)
(* date is left out).                                                      *)
(***************************************************************************)
C7_BadDateExcluded ==
    pc = "done" =>
        \A i \in DOMAIN db.embalses.rows :
            Celda(db.embalses.cols, db.embalses.rows[i], "fecha")
                \in {Txt("2024-01-09"), Txt("2024-01-16")}

(***************************************************************************)
(* C7, as amended.  No row is left out: the table has one row per source   *)
(* row, in order, whose fecha is the ISO-8601 text of the source date, or  *)
(* NULL when the source value is no date.                                  *)
(***************************************************************************)
C7_BadDateNull ==
    pc = "done" =>
        /\ Len(db.embalses.rows) = Len(zip.datos.rows)
        /\ \A i \in DOMAIN db.embalses.rows :
              Celda(db.embalses.cols, db.embalses.rows[i], "fecha")
                  = FechaEsperada(FechasFuente[i])

C7_Witness ==
    /\ pc = "done"
    /\ \E i \in DOMAIN db.embalses.rows :
          /\ FechasFuente[i] = Txt("not-a-date")
          /\ Celda(db.embalses.cols, db.embalses.rows[i], "fecha") = NULO
    /\ \E i \in DOMAIN db.embalses.rows :
          Celda(db.embalses.cols, db.embalses.rows[i], "fecha") = Txt("2024-01-16")

(***************************************************************************)
(* C8.  Temporary file: when the parse call of a .mdb entry has returned   *)
(* or raised, the temporary file it created no longer exists.              *)
(***************************************************************************)
C8_TempRemoved ==
    (pc \in {"failed", "normalizar", "g_fecha"} /\ EsBaseDatos(elegido.entrada))
        => tmp = {}

(***************************************************************************)
(* C9.  Locator: detectar_url_zip makes one request and always returns a   *)
(* URL, never an error: the fallback URL unless the page was fetched and   *)
(* parsed and has a link containing BD-Embalses and ending in .zip; then   *)
(* the first such link, prefixed with the site origin when it does not     *)
(* start with http.                                                        *)
(***************************************************************************)
C9_LocatorFallback ==
    pc = "descargar" =>
        LET hs == FindAllHref(resp.pagina)
            buenos == {i \in DOMAIN hs :
                          Contains("BD-Embalses", hs[i]) /\ EndsWith(hs[i], ".zip")}
            defecto == IF variante = "win" THEN ZIP_DIRECT_URL_WIN ELSE ZIP_DIRECT_URL_LINUX
        IN  /\ error = SinError /\ url # ""
            /\ peticiones = 1
            /\ (resp.tipo # "ok" \/ buenos = {}) => url = defecto
            /\ (resp.tipo = "ok" /\ buenos # {}) =>
                  LET h == hs[CHOOSE i \in buenos : \A j \in buenos : i <= j]
                  IN  url = IF SubSeq(h, 1, 4) = "http" THEN h ELSE ORIGEN \o h

C9_Witness ==
    /\ pc = "descargar" /\ resp.tipo = "ok" /\ Len(resp.pagina) = 2
    /\ resp.pagina[1] = <<"/content/dam/BD-Embalses_1988-2024.pdf">>
    /\ url = "https://www.miteco.gob.es/content/dam/BD-Embalses_1988-2024.zip"

(***************************************************************************)
(* C10.  Format preference: when the archive lists a spreadsheet entry,    *)
(* with or without a .mdb entry and in any order, the extractor reads the  *)
(* first spreadsheet entry of the listing and the .mdb path is not taken:  *)
(* no temporary file, no external tool.                                    *)
(***************************************************************************)
C10_PrefiereExcel ==
    (pc # "parsear" /\ zip.valido /\ \E i \in DOMAIN zip.nombres : EsHojaCalculo(zip.nombres[i]))
        => /\ elegido.entrada
                = zip.nombres[CHOOSE i \in DOMAIN zip.nombres :
                                 /\ EsHojaCalculo(zip.nombres[i])
                                 /\ \A j \in 1..(i - 1) : ~EsHojaCalculo(zip.nombres[j])]
           /\ elegido.tabla = ""
           /\ pc # "mdb" /\ tmp = {} /\ herramienta = <<>>

C10_Witness ==
    /\ zip.nombres = <<"BD-Embalses.mdb", "Historico.XLS">>
    /\ pc = "normalizar" /\ elegido.entrada = "Historico.XLS" /\ tmp = {}

(***************************************************************************)
(* 7. Readers: api.py (Flask endpoints) and the static generators.         *)
(* A request is served in one step: the handler's queries see the durable  *)
(* content of the file at that moment.                                     *)
(***************************************************************************)
Ausente == [t |-> "ausente", n |-> 0, s |-> ""]

NaN == [t |-> "nan", n |-> 0, s |-> ""]

\* The number written by a string of decimal digits.
RECURSIVE ValorDigitos(_)
ValorDigitos(x) ==
    IF x = "" THEN 0
    ELSE ValorDigitos(SubSeq(x, 1, Len(x) - 1)) * 10 + (Pos(Car(x, Len(x)), Digitos) - 1)

SoloDigitos(x) == \A i \in 1..Len(x) : EsDigito(Car(x, i))

\* float(s) for the texts of the model: blanks around, a sign, digits with at most
\* one point and at most two decimals; None (ValueError caught by the caller) for
\* anything else.  The value is in hundredths.
ParseFloat(s) ==
    LET s1 == Strip(s)
        neg == StartsWith(s1, "-")
        s2 == IF StartsWith(s1, "-") \/ StartsWith(s1, "+") THEN SubSeq(s1, 2, Len(s1)) ELSE s1
        k == Pos(".", s2)
        ent == IF k = 0 THEN s2 ELSE SubSeq(s2, 1, k - 1)
        frac == IF k = 0 THEN "" ELSE SubSeq(s2, k + 1, Len(s2))
        valido == /\ SoloDigitos(ent) /\ SoloDigitos(frac)
                  /\ Len(ent) + Len(frac) > 0 /\ Len(frac) <= 2
        cent == IF Len(frac) = 1 THEN ValorDigitos(frac) * 10 ELSE ValorDigitos(frac)
        m == ValorDigitos(ent) * 100 + cent
    IN  IF ~valido THEN NULO ELSE Num(IF neg THEN 0 - m ELSE m)

\* limpiar_numero(valor): float(str(valor).replace(",", ".")), None on None and on
\* any exception.
limpiar_numero(valor) ==
    IF valor.t = "null" THEN NULO
    ELSE IF valor.t = "txt" THEN ParseFloat(Traducir(valor.s, ",", "."))
    ELSE IF valor.t \in {"num", "inf"} THEN valor
    ELSE NULO

\* Python truth of a float or None (the operands of `total and actual`).
Verdadero(x) == x.t = "inf" \/ x.t = "nan" \/ (x.t = "num" /\ x.n # 0)

\* bool(row.get("ELECTRICO_FLAG"))
Booleano(x) == Verdadero(x) \/ (x.t = "txt" /\ x.s # "")

\* round(actual / total * 100, 1) for total > 0, in hundredths.
Round1(actual, total) ==
    IF actual.t = "inf" /\ total.t = "inf" THEN NaN
    ELSE IF actual.t = "inf" THEN actual
    ELSE IF total.t = "inf" THEN Num(0)
    ELSE IF actual.n >= 0 THEN Num(10 * Redondear(actual.n * 1000, total.n))
    ELSE Num(0 - 10 * Redondear((0 - actual.n) * 1000, total.n))

\* row.get(key) on the dict of a fetched row: None when the table has no such column.
RowGet(cols, r, key) == Celda(cols, r, key)

\* formato_embalse(row) of api.py.
formato_embalse(cols, r) ==
    LET total == limpiar_numero(RowGet(cols, r, "AGUA_TOTAL"))
        actual == limpiar_numero(RowGet(cols, r, "AGUA_ACTUAL"))
        positivo == (total.t = "num" /\ total.n > 0) \/ (total.t = "inf" /\ total.n > 0)
        pct == IF Verdadero(total) /\ Verdadero(actual) /\ positivo
               THEN Round1(actual, total) ELSE NULO
    IN  [nombre |-> RowGet(cols, r, "EMBALSE_NOMBRE"),
         cuenca |-> RowGet(cols, r, "AMBITO_NOMBRE"),
         fecha |-> RowGet(cols, r, "fecha"),
         capacidad_hm3 |-> total,
         volumen_hm3 |-> actual,
         porcentaje |-> pct,
         agua_actual_hm3 |-> Ausente,
         electrico |-> Booleano(RowGet(cols, r, "ELECTRICO_FLAG"))]

\* formato_embalse(row) of generar_json.py and exportar_json.py.
formato_embalse_json(cols, r) ==
    [nombre |-> RowGet(cols, r, "EMBALSE_NOMBRE"),
     cuenca |-> RowGet(cols, r, "AMBITO_NOMBRE"),
     fecha |-> RowGet(cols, r, "fecha"),
     capacidad_hm3 |-> Ausente,
     volumen_hm3 |-> limpiar_numero(RowGet(cols, r, "volumen_hm3")),
     porcentaje |-> Ausente,
     agua_actual_hm3 |-> limpiar_numero(RowGet(cols, r, "AGUA_ACTUAL")),
     electrico |-> Booleano(RowGet(cols, r, "ELECTRICO_FLAG"))]

\* The column an SQL statement means by nombre (SQLite matches column names
\* without regard to case); 0 when the table has none: "no such column".
ColSql(cols, nombre) ==
    IF Indice(cols, nombre) # 0 THEN Indice(cols, nombre)
    ELSE LET n == Lower(nombre)
             js == {j \in DOMAIN cols : Lower(cols[j]) = n}
         IN  IF js = {} THEN 0 ELSE CHOOSE j \in js : \A i \in js : j <= i

\* The statement runs: the table exists and has every column it names.
TablaLegible(d, columnas) ==
    /\ d.embalses.existe
    /\ \A c \in columnas : ColSql(d.embalses.cols, c) # 0

\* a < b in SQLite's order of values: NULL, then numbers, then text.
CeldaMenor(a, b) ==
    IF a.t = "null" THEN b.t # "null"
    ELSE IF b.t = "null" THEN FALSE
    ELSE IF a.t = "txt" /\ b.t = "txt" THEN TextoMenor(a.s, b.s)
    ELSE IF a.t = "txt" THEN FALSE
    ELSE IF b.t = "txt" THEN TRUE
    ELSE a.n < b.n

RECURSIVE InsertarOrden(_, _, _, _)
\* x placed in the sorted list ys, after the rows that do not come after it.
InsertarOrden(x, ys, k, desc) ==
    IF ys = <<>> THEN <<x>>
    ELSE IF (IF desc THEN CeldaMenor(Head(ys)[k], x[k]) ELSE CeldaMenor(x[k], Head(ys)[k]))
         THEN <<x>> \o ys
         ELSE <<Head(ys)>> \o InsertarOrden(x, Tail(ys), k, desc)

RECURSIVE Ordenar(_, _, _)
\* ORDER BY column k [DESC] of rows.
Ordenar(rows, k, desc) ==
    IF rows = <<>> THEN <<>>
    ELSE InsertarOrden(rows[Len(rows)], Ordenar(SubSeq(rows, 1, Len(rows) - 1), k, desc),
                       k, desc)

RECURSIVE ListaOrdenada(_)
\* SELECT DISTINCT ... ORDER BY: the cells of S in ascending order.
ListaOrdenada(S) ==
    IF S = {} THEN <<>>
    ELSE LET x == CHOOSE x \in S : \A y \in S : ~CeldaMenor(y, x)
         IN  <<x>> \o ListaOrdenada(S \ {x})

\* SELECT MAX(fecha) AS f FROM embalses: NULL on an empty table or without dates.
UltimaFecha(d) ==
    LET k == ColSql(d.embalses.cols, "fecha")
        fs == {d.embalses.rows[i][k] : i \in DOMAIN d.embalses.rows} \ {NULO}
    IN  IF fs = {} THEN NULO ELSE CHOOSE f \in fs : \A g \in fs : ~CeldaMenor(f, g)

\* SELECT * FROM embalses WHERE fecha = ? ORDER BY EMBALSE_NOMBRE, with ? the
\* value of MAX(fecha) (fecha = NULL is true of no row).
FilasUltimas(d) ==
    LET cols == d.embalses.cols
        rows == d.embalses.rows
        k == ColSql(cols, "fecha")
        u == UltimaFecha(d)
        ids == {i \in DOMAIN rows : u.t # "null" /\ rows[i][k] = u}
    IN  Ordenar(Seleccionar(rows, ids, 1), ColSql(cols, "EMBALSE_NOMBRE"), FALSE)

Proyectar(cols, rows) == [i \in DOMAIN rows |-> formato_embalse(cols, rows[i])]

ProyectarJson(cols, rows) == [i \in DOMAIN rows |-> formato_embalse_json(cols, rows[i])]

Resp(ruta, estado) == [SinPeticion EXCEPT !.ruta = ruta, !.estado = estado]

\* GET /api/meta
RespMeta(d) ==
    IF ~d.archivo THEN Resp("/api/meta", 503)
    ELSE IF ~d.meta_existe THEN Resp("/api/meta", 500)
    ELSE [Resp("/api/meta", 200) EXCEPT !.meta = d.meta]

\* GET /api/cuencas
RespCuencas(d) ==
    IF ~d.archivo THEN Resp("/api/cuencas", 503)
    ELSE IF ~TablaLegible(d, {"AMBITO_NOMBRE"}) THEN Resp("/api/cuencas", 500)
    ELSE LET k == ColSql(d.embalses.cols, "AMBITO_NOMBRE")
             S == {d.embalses.rows[i][k] : i \in DOMAIN d.embalses.rows} \ {NULO}
         IN  [Resp("/api/cuencas", 200) EXCEPT !.lista = ListaOrdenada(S)]

\* COUNT(DISTINCT columna) over the rows of the latest date.
CuentaDistintos(d, columna) ==
    LET k == ColSql(d.embalses.cols, columna)
        rs == FilasUltimas(d)
    IN  Cardinality({rs[i][k] : i \in DOMAIN rs} \ {NULO})

\* GET /api/resumen
RespResumen(d) ==
    IF ~d.archivo THEN Resp("/api/resumen", 503)
    ELSE IF ~TablaLegible(d, {"fecha", "EMBALSE_NOMBRE", "AMBITO_NOMBRE"})
         THEN Resp("/api/resumen", 500)
    ELSE [Resp("/api/resumen", 200) EXCEPT !.fecha = UltimaFecha(d),
                                            !.n = CuentaDistintos(d, "EMBALSE_NOMBRE"),
                                            !.m = CuentaDistintos(d, "AMBITO_NOMBRE")]

\* GET /api/embalses (no cuenca filter, first page)
RespEmbalses(d) ==
    IF ~d.archivo THEN Resp("/api/embalses", 503)
    ELSE IF ~TablaLegible(d, {"fecha", "EMBALSE_NOMBRE"}) THEN Resp("/api/embalses", 500)
    ELSE LET rows == FilasUltimas(d)
         IN  [Resp("/api/embalses", 200) EXCEPT !.fecha = UltimaFecha(d),
                                                 !.n = Len(rows),
                                                 !.filas = Proyectar(d.embalses.cols, rows)]

\* GET /api/embalses/<nombre> (no desde / hasta)
RespDetalle(d, nombre) ==
    IF ~d.archivo THEN Resp("/api/embalses/<nombre>", 503)
    ELSE IF ~TablaLegible(d, {"fecha", "EMBALSE_NOMBRE"})
         THEN Resp("/api/embalses/<nombre>", 500)
    ELSE LET cols == d.embalses.cols
             rows == d.embalses.rows
             k == ColSql(cols, "EMBALSE_NOMBRE")
             ids == {i \in DOMAIN rows :
                        rows[i][k].t = "txt" /\ Contains(Lower(nombre), Lower(rows[i][k].s))}
             historico == Ordenar(Seleccionar(rows, ids, 1), ColSql(cols, "fecha"), TRUE)
         IN  IF historico = <<>> THEN Resp("/api/embalses/<nombre>", 404)
             ELSE [Resp("/api/embalses/<nombre>", 200)
                      EXCEPT !.filas = Proyectar(cols, historico), !.n = Len(historico)]

\* What a read request leaves alone: everything but its answer and, for the
\* generators, the file.
NoLector == <<variante, pc, nruns, reloj, resp, peticiones, url, zip, elegido, tmp,
              herramienta, df, error, tx, pre, ult_ok>>

\* One request to each endpoint of api.py.
ApiMeta ==
    /\ api = SinPeticion
    /\ api' = RespMeta(db)
    /\ UNCHANGED <<db, NoLector>>

ApiCuencas ==
    /\ api = SinPeticion
    /\ api' = RespCuencas(db)
    /\ UNCHANGED <<db, NoLector>>

ApiResumen ==
    /\ api = SinPeticion
    /\ api' = RespResumen(db)
    /\ UNCHANGED <<db, NoLector>>

ApiEmbalsesLista ==
    /\ api = SinPeticion
    /\ api' = RespEmbalses(db)
    /\ UNCHANGED <<db, NoLector>>

ApiEmbalseDetalle ==
    /\ api = SinPeticion
    /\ \E nombre \in {"alarcon", "Buen", "Contreras"} : api' = RespDetalle(db, nombre)
    /\ UNCHANGED <<db, NoLector>>

\* The columns formato_embalse of exportar_json.py indexes (row["..."] raises on a
\* column the table does not have).
ColumnasJson == {"volumen_hm3", "AGUA_ACTUAL", "EMBALSE_NOMBRE", "AMBITO_NOMBRE", "fecha",
                 "ELECTRICO_FLAG"}

\* generar_json.py main(), as far as embalses.json: sqlite3.connect creates the
\* file when it is missing; a failing query ends the script before any output.
GenerarJson ==
    /\ api = SinPeticion
    /\ db' = [db EXCEPT !.archivo = TRUE]
    /\ api' = IF ~TablaLegible(db, {"fecha", "EMBALSE_NOMBRE", "AMBITO_NOMBRE"})
              THEN Resp("generar_json", 500)
              ELSE LET rows == FilasUltimas(db)
                   IN  [Resp("generar_json", 200)
                           EXCEPT !.fecha = UltimaFecha(db),
                                  !.n = Len(rows),
                                  !.filas = ProyectarJson(db.embalses.cols, rows)]
    /\ UNCHANGED NoLector

\* exportar_json.py main(), as far as embalses.json.
ExportarJson ==
    /\ api = SinPeticion
    /\ api' = IF ~db.archivo THEN Resp("exportar_json", 503)
              ELSE IF ~TablaLegible(db, {"fecha", "EMBALSE_NOMBRE", "AMBITO_NOMBRE"})
                   THEN Resp("exportar_json", 500)
              ELSE LET rows == FilasUltimas(db)
                   IN  IF rows # <<>> /\ ~TablaLegible(db, ColumnasJson)
                       THEN Resp("exportar_json", 500)
                       ELSE [Resp("exportar_json", 200)
                                EXCEPT !.fecha = UltimaFecha(db),
                                       !.n = Len(rows),
                                       !.filas = ProyectarJson(db.embalses.cols, rows)]
    /\ UNCHANGED <<db, NoLector>>

\* The answer has been sent: close_connection tears the request down.
CloseConnection ==
    /\ api # SinPeticion
    /\ api' = SinPeticion
    /\ UNCHANGED <<db, NoLector>>

(***************************************************************************)
(* The pipeline with readers: runs of main() over a few spreadsheets, and  *)
(* read requests served between any two steps of a run.                    *)
(***************************************************************************)
HojasApi ==
    { Hoja("real", <<>>),
      Hoja("real", << <<"Alarcon", Fch(2024, 1, 16)>> >>),
      Hoja("real", << <<"Alarcon", Fch(2024, 1, 16)>>, <<"Buendia", Fch(2024, 1, 9)>> >>),
      Hoja("real", << <<"Alarcon", Fch(2024, 1, 9)>>, <<"Alarcon", Fch(2024, 1, 16)>> >>),
      Hoja("mapeado", << <<"Alarcon", Fch(2024, 1, 16)>> >>) }

ArchivosApi ==
    {Archivo(<<"BD-Embalses.xlsx">>, h) : h \in HojasApi}
    \cup {Archivo(<<"LEEME.txt">>, SinDf)}

RespuestasApi == {[tipo |-> "ok", pagina |-> <<>>]}

\* A step of the run in progress is taken while no request is being served.
NextApi ==
    \/ api = SinPeticion /\ Iniciar
    \/ api = SinPeticion /\ Detectar(RespuestasApi)
    \/ api = SinPeticion /\ Descargar(ArchivosApi)
    \/ api = SinPeticion /\ ParsearExcel
    \/ api = SinPeticion /\ SinFormato
    \/ api = SinPeticion /\ Normalizar
    \/ api = SinPeticion /\ GuardarFecha
    \/ api = SinPeticion /\ Conectar
    \/ api = SinPeticion /\ ToSqlDrop
    \/ api = SinPeticion /\ ToSqlCreate
    \/ api = SinPeticion /\ ToSqlInsert
    \/ api = SinPeticion /\ DropView
    \/ api = SinPeticion /\ CreateView
    \/ api = SinPeticion /\ CreateMeta
    \/ api = SinPeticion /\ InsertUA
    \/ api = SinPeticion /\ InsertTotal
    \/ api = SinPeticion /\ Commit
    \/ api = SinPeticion /\ GuardarFalla
    \/ ApiMeta
    \/ ApiCuencas
    \/ ApiResumen
    \/ ApiEmbalsesLista
    \/ ApiEmbalseDetalle
    \/ GenerarJson
    \/ ExportarJson
    \/ CloseConnection

SpecApi == Init /\ [][NextApi]_vars

(***************************************************************************)
(* The two derivations of the percentage alone, over every pair of         *)
(* capacity and volume cells: a run has parsed a sheet holding the pair    *)
(* (headers of COLUMN_MAP) and is about to normalise it, and the store     *)
(* holds what an earlier run of the same script persisted from a sheet     *)
(* with the source's own headers holding the same pair.                    *)
(***************************************************************************)
CeldasFmt == {NULO, Num(0), Num(9100), Num(20000), Num(0 - 500),
              Txt("91,00"), Txt("91.00"), Txt("n/a")}

\* The sheet with the headers of COLUMN_MAP: capacity c, volume v.
HojaFmt(c, v) ==
    [cols |-> Cabecera("mapeado"),
     rows |-> << <<Txt("Alarcon"), Fch(2024, 1, 16), c, v>> >>]

\* The sheet with the source's headers: AGUA_TOTAL c, AGUA_ACTUAL v.
HojaFmtReal(c, v) ==
    [cols |-> Cabecera("real"),
     rows |-> << <<Txt("Alarcon"), Txt("Jucar"), Fch(2024, 1, 16), c, v, Num(100)>> >>]

\* The store after a successful run of script v on sheet h (h passes normalizar).
Persistido(v, h) ==
    LET d == IF v = "win" THEN normalizar(h).df ELSE FechaLinux(h)
    IN  [archivo |-> TRUE,
         embalses |-> [existe |-> TRUE, cols |-> d.cols, rows |-> Insertar(<<>>, d)],
         vista |-> v = "win" /\ CreaVista(d.cols),
         meta_existe |-> TRUE,
         meta |-> {<<"ultima_actualizacion", Isoformat(0)>>,
                   <<"total_registros", TotalRegistros(d)>>}]

InitFmt ==
    /\ variante \in {"win", "linux"}
    /\ pc = TrasParsear(variante)
    /\ nruns = 2 /\ reloj = 1
    /\ resp = SinRespuesta /\ peticiones = 1 /\ url = ""
    /\ \E c \in CeldasFmt, v \in CeldasFmt :
          /\ zip = Archivo(<<"BD-Embalses.xlsx">>, HojaFmt(c, v))
          /\ df = HojaFmt(c, v)
          /\ db = Persistido(variante, HojaFmtReal(c, v))
    /\ elegido = [SinEleccion EXCEPT !.entrada = "BD-Embalses.xlsx"]
    /\ tmp = {} /\ herramienta = <<>> /\ error = SinError
    /\ tx = SinTx /\ pre = db /\ ult_ok = SinUltOk
    /\ api = SinPeticion

NextFmt ==
    \/ Normalizar
    \/ GuardarFecha
    \/ ApiEmbalsesLista

SpecFmt == InitFmt /\ [][NextFmt]_vars

\* The number a cell stands for in the statement of the properties: a number, or
\* a numeral written with a point or a comma; none (-1 is not used) otherwise.
EsNumero(x) == x.t = "num" \/ x \in {Txt("91,00"), Txt("91.00")}

ValorDe(x) == IF x.t = "num" THEN x.n ELSE 9100

\* volume / capacity * 100 rounded to dec decimals when both are numbers and the
\* capacity is positive, null otherwise.
PctEsperado(v, c, dec) ==
    IF EsNumero(v) /\ EsNumero(c) /\ ValorDe(c) > 0
    THEN IF dec = 2 THEN Num(Redondear(ValorDe(v) * 10000, ValorDe(c)))
         ELSE Num(10 * Redondear(ValorDe(v) * 1000, ValorDe(c)))
    ELSE NULO

(***************************************************************************)
(* C11.  Percent-full: normalizar (the run does not fail and the derived   *)
(* porcentaje of a row) and formato_embalse (the porcentaje of a served    *)
(* row) give volume / capacity * 100, rounded, when both are numbers and   *)
(* the capacity is positive (also for a volume of 0), and null otherwise:  *)
(* never an infinity, never an error.                                      *)
(***************************************************************************)
C11_PercentFull ==
    /\ (variante = "win" /\ pc \in {"g_connect", "failed"}) =>
          /\ pc # "failed"
          /\ \A i \in DOMAIN df.rows :
                Celda(df.cols, df.rows[i], "porcentaje")
                    = PctEsperado(Celda(df.cols, df.rows[i], "volumen_hm3"),
                                  Celda(df.cols, df.rows[i], "capacidad_hm3"), 2)
    /\ (api.ruta = "/api/embalses" /\ api.estado = 200) =>
          \A i \in DOMAIN api.filas :
              api.filas[i].porcentaje
                  = PctEsperado(Celda(db.embalses.cols, db.embalses.rows[i], "AGUA_ACTUAL"),
                                Celda(db.embalses.cols, db.embalses.rows[i], "AGUA_TOTAL"), 1)


\* The number or null a cell parses to in the statement of the properties.
NumeroEsperado(x) == IF EsNumero(x) THEN Num(ValorDe(x)) ELSE NULO

(***************************************************************************)
(* C12.  Numeric parsing is total: whatever the capacity and volume cells  *)
(* hold (null, a number, a numeral with a point or a comma, other text),   *)
(* the normalisation stage does not abort, and the read side serves for    *)
(* each of the two a number or null, the same number for "91,00" as for    *)
(* "91.00".                                                                *)
(***************************************************************************)
C12_NumericTotal ==
    /\ pc # "failed"
    /\ (api.ruta = "/api/embalses" /\ api.estado # 0) =>
          /\ api.estado = 200
          /\ \A i \in DOMAIN api.filas :
                LET row == db.embalses.rows[i]
                    cols == db.embalses.cols
                IN  /\ api.filas[i].capacidad_hm3 = NumeroEsperado(Celda(cols, row, "AGUA_TOTAL"))
                    /\ api.filas[i].volumen_hm3 = NumeroEsperado(Celda(cols, row, "AGUA_ACTUAL"))


\* The request was made to an endpoint of api.py.
EsEndpoint(r) == r.estado # 0 /\ StartsWith(r.ruta, "/api/")

(***************************************************************************)
(* C13.  Data not yet available: as long as no run has completed           *)
(* successfully (none started, one in progress, or runs that failed at any *)
(* stage, the commit included), every endpoint of api.py answers 503.      *)
(***************************************************************************)
C13_NoDataSignal ==
    (~HayExito /\ EsEndpoint(api)) => api.estado = 503


\* The message tells the operator what to install.
TieneGuia(msg) == Contains("instal", Lower(msg))

(***************************************************************************)
(* C14.  Tooling unavailable: when the .mdb path is taken and the tool it  *)
(* needs is missing (pyodbc or the Access driver for parsear_mdb,          *)
(* mdb-tables or mdb-export for parsear_mdb_linux), the parse fails with   *)
(* an error whose message carries installation guidance, on both scripts.  *)
(***************************************************************************)
C14_ToolingGuidance ==
    (EsBaseDatos(elegido.entrada) /\ elegido.falta # "")
        => pc = "failed" /\ TieneGuia(error.msg)


\* The answer is a reservoir list: GET /api/embalses or a written embalses.json.
EsListaEmbalses(r) ==
    r.estado = 200 /\ r.ruta \in {"/api/embalses", "generar_json", "exportar_json"}

(***************************************************************************)
(* C15.  Latest datum per reservoir: after a successful run, the list of   *)
(* /api/embalses and of embalses.json holds, for every reservoir of the    *)
(* persisted table that has a dated row, that reservoir's row at its own   *)
(* latest date, also when that date is earlier than the latest date of the *)
(* whole table.                                                            *)
(***************************************************************************)
C15_LatestPerReservoir ==
    (pc = "done" /\ EsListaEmbalses(api)) =>
        LET cols == db.embalses.cols
            rows == db.embalses.rows
        IN  \A i \in DOMAIN rows :
                LET e == Celda(cols, rows[i], "EMBALSE_NOMBRE")
                    f == MaxFecha(cols, rows, "EMBALSE_NOMBRE", e)
                IN  f # NULO =>
                        \E j \in DOMAIN api.filas :
                            api.filas[j].nombre = e /\ api.filas[j].fecha = f


\* The embalses table a complete write of the frame of the run in progress gives.
TablaNueva == [existe |-> TRUE, cols |-> df.cols, rows |-> ToSqlFilas(df)]

\* guardar_db of the run in progress is between its first and its last statement,
\* over a store that holds the complete snapshot of the last successful run.
CommitEnCurso == pc \in PasosGuardar /\ ult_ok.hay /\ pre = ult_ok.db

(***************************************************************************)
(* C16.  Reader isolation: a request served between two write steps of     *)
(* guardar_db reads either the complete previous snapshot or the complete  *)
(* new one: /api/embalses answers as it would on one of the two tables     *)
(* (never on an absent, empty or partial one), and the total_registros     *)
(* that /api/meta returns is the row count of the table readable then.     *)
(***************************************************************************)
C16_ReaderIsolation ==
    (CommitEnCurso /\ api.estado # 0) =>
        /\ api.ruta = "/api/embalses" =>
              api \in {RespEmbalses([db EXCEPT !.embalses = pre.embalses]),
                       RespEmbalses([db EXCEPT !.embalses = TablaNueva])}
        /\ api.ruta = "/api/meta" =>
              /\ api.estado = 200
              /\ db.embalses.existe
              /\ MetaValor(api.meta, "total_registros") = Str(Len(db.embalses.rows))


\* The name carries a domain keyword, whatever its case.
TieneClave(t) == \E k \in {"embalse", "presa", "pantano"} : Contains(k, Lower(t))

\* The table the selection rule gives for a non-empty list.
TablaEsperada(tablas) ==
    IF \E i \in DOMAIN tablas : TieneClave(tablas[i])
    THEN tablas[CHOOSE i \in DOMAIN tablas :
                    /\ TieneClave(tablas[i])
                    /\ \A j \in 1..(i - 1) : ~TieneClave(tablas[j])]
    ELSE tablas[1]

FilasFuente(r) ==
    {i \in DOMAIN zip.datos.rows :
        /\ Celda(zip.datos.cols, zip.datos.rows[i], "EMBALSE_NOMBRE") = r.nombre
        /\ FechaEsperada(Celda(zip.datos.cols, zip.datos.rows[i], "FECHA")) = r.fecha}

(***************************************************************************)
(* C18.  Schema agreement between pipeline and readers: after a sheet with *)
(* the columns AGUA_TOTAL and AGUA_ACTUAL has gone through normalizar and  *)
(* guardar_db, every row that formato_embalse projects (for /api/embalses  *)
(* and for embalses.json) has capacidad_hm3 equal to the source row's      *)
(* AGUA_TOTAL and volumen_hm3 equal to its AGUA_ACTUAL, neither null.      *)
(***************************************************************************)
C18_SchemaAgreement ==
    (variante = "win" /\ pc = "done" /\ zip.datos.cols = Cabecera("real")
        /\ EsListaEmbalses(api)) =>
        \A j \in DOMAIN api.filas :
            /\ FilasFuente(api.filas[j]) # {}
            /\ \A i \in FilasFuente(api.filas[j]) :
                  LET total == Celda(zip.datos.cols, zip.datos.rows[i], "AGUA_TOTAL")
                      actual == Celda(zip.datos.cols, zip.datos.rows[i], "AGUA_ACTUAL")
                  IN  /\ EsNumero(total) /\ EsNumero(actual)
                      /\ api.filas[j].capacidad_hm3 = NumeroEsperado(total)
                      /\ api.filas[j].volumen_hm3 = NumeroEsperado(actual)

=============================================================================
